---- MODULE Spec2Model ----
(***************************************************************************)
(* Vehicle routing planner: road network (modules/graph.py), traversal     *)
(* cost model (modules/cost.py) and greedy planner with time-expanded      *)
(* shortest-path search (modules/planner.py).                              *)
(*                                                                         *)
(* Python lists are modelled as TLA+ sequences, so list index i is         *)
(* sequence index i + 1.  Weights, sensor readings, points and penalties   *)
(* are integers (the float arithmetic of the program is exact on them).    *)
(***************************************************************************)
EXTENDS Integers, Sequences, FiniteSets, TLC

VARIABLES
    adjacency_matrix,   \* Graph.adjacency_matrix
    road_weights,       \* CostCalculator.road_weights
    sensors,            \* CostCalculator.sensors
    T,                  \* Planner.T
    start_node,         \* Planner.start_node
    objectives,         \* Planner.objectives (input order)
    late_penalty,       \* Planner.late_penalty
    vehicles,           \* Planner.vehicles
    pc,                 \* position inside Planner.solve / _assign_objective
    sorted_objs,        \* solve: sorted_objs, as indices into objectives
    obj_pos,            \* solve: number of objectives of sorted_objs already taken by the for loop
    pending,            \* _assign_objective: best_vehicle, best_data and the position in path[1:]
    last_eval,          \* _assign_objective: what the evaluation loop computed for the current objective
    visits,             \* how many times each objective was handed to _assign_objective
    solution,           \* the value returned by solve
    cache,              \* CostCalculator._cache
    ret,                \* the last get_cost call and its return value
    score_call,         \* the last _calculate_score call and its return value
    fp_call,            \* the last _find_path call and its return value
    queried,            \* the (road_type, time, class) of every get_cost call of the solve so far
    graph_call          \* the last call of a Graph method and its outcome

vars == <<adjacency_matrix, road_weights, sensors, T, start_node, objectives,
          late_penalty, vehicles, pc, sorted_objs, obj_pos, pending, last_eval,
          visits, solution, cache, ret, score_call, fp_call, queried, graph_call>>

instance_vars == <<adjacency_matrix, road_weights, sensors, T, start_node,
                   objectives, late_penalty>>

planner_vars == <<vehicles, pc, sorted_objs, obj_pos, pending, last_eval,
                  visits, solution, queried>>

----------------------------------------------------------------------------
(* Bounds of the model *)

MaxWeight == 2
MaxCache == 2
MaxTime == 3
MaxPoints == 3
MaxPenalty == 2
MaxT == 3
MaxOutside == 1

----------------------------------------------------------------------------
(* Values of the program *)

\* get_cost returns None for an edge that cannot be used
Impassable == -1

\* float('inf')
Inf == 1000000

NoRoad == -1

Airspace == 0

MaxRoadType == 5

RoadTypes == NoRoad..MaxRoadType

VehicleTypes == {"truck", "drone"}

Max(a, b) == IF a >= b THEN a ELSE b

Min(a, b) == IF a <= b THEN a ELSE b

----------------------------------------------------------------------------
(* modules/graph.py *)

\* Graph.num_nodes
num_nodes == Len(adjacency_matrix)

Nodes == 0..(num_nodes - 1)

\* Graph.get_road_type
GetRoadType(from_node, to_node) == adjacency_matrix[from_node + 1][to_node + 1]

\* Graph.get_neighbors: the (next_node, road_type) pairs in ascending next_node
GetNeighbors(node, vehicle_type) ==
    LET all == [i \in 1..num_nodes |-> <<i - 1, adjacency_matrix[node + 1][i]>>]
        Keep(nb) == /\ nb[2] # -1
                    /\ ~(vehicle_type = "truck" /\ nb[2] = 0)
    IN  SelectSeq(all, Keep)

\* Graph.is_valid_edge
IsValidEdge(from_node, to_node, vehicle_type) ==
    LET road_type == adjacency_matrix[from_node + 1][to_node + 1]
    IN  IF road_type = -1 THEN FALSE
        ELSE IF vehicle_type = "truck" /\ road_type = 0 THEN FALSE
        ELSE TRUE

\* Python's list[i] raises IndexError unless -len(list) <= i < len(list)
InIndexRange(list, i) == (0 - Len(list)) <= i /\ i < Len(list)

\* Python's list[i]: the position a valid index i stands for, a negative
\* index counting from the end of the list
PyIndex(list, i) == IF i < 0 THEN i + Len(list) ELSE i

\* how a call ends: with an IndexError, or by returning a value
IndexError == [raised |-> TRUE]

Returned(v) == [raised |-> FALSE, value |-> v]

\* Graph.get_road_type called with any integers
GetRoadTypeOutcome(from_node, to_node) ==
    IF ~InIndexRange(adjacency_matrix, from_node) THEN IndexError
    ELSE LET f == PyIndex(adjacency_matrix, from_node)
             row == adjacency_matrix[f + 1]
         IN  IF ~InIndexRange(row, to_node) THEN IndexError
             ELSE Returned(GetRoadType(f, PyIndex(row, to_node)))

\* Graph.is_valid_edge called with any integers
IsValidEdgeOutcome(from_node, to_node, vehicle_type) ==
    IF ~InIndexRange(adjacency_matrix, from_node) THEN IndexError
    ELSE LET f == PyIndex(adjacency_matrix, from_node)
             row == adjacency_matrix[f + 1]
         IN  IF ~InIndexRange(row, to_node) THEN IndexError
             ELSE Returned(IsValidEdge(f, PyIndex(row, to_node), vehicle_type))

\* Graph.get_neighbors called with any integer
GetNeighborsOutcome(node, vehicle_type) ==
    IF num_nodes > 0 /\ ~InIndexRange(adjacency_matrix, node) THEN IndexError
    ELSE Returned(GetNeighbors(PyIndex(adjacency_matrix, node), vehicle_type))

----------------------------------------------------------------------------
(* modules/cost.py *)

IsBlockedOr(base_weight, time, vehicle_type) ==
    IF vehicle_type = "truck"
    THEN (base_weight * sensors.earth_shock[time + 1] > 10)
         \/ (base_weight * sensors.rainfall[time + 1] > 30)
    ELSE (base_weight * sensors.wind[time + 1] > 60)
         \/ (base_weight * sensors.visibility[time + 1] < 6)

\* CostCalculator._is_blocked
IsBlocked(base_weight, time, vehicle_type) ==
    IF vehicle_type = "truck"
    THEN LET earth_shock == sensors.earth_shock[time + 1]
             rainfall == sensors.rainfall[time + 1]
             condition1 == (base_weight * earth_shock) > 10
             condition2 == (base_weight * rainfall) > 30
         IN  condition1 /\ condition2
    ELSE LET wind == sensors.wind[time + 1]
             visibility == sensors.visibility[time + 1]
             condition1 == (base_weight * wind) > 60
             condition2 == (base_weight * visibility) < 6
         IN  condition1 /\ condition2

\* CostCalculator.get_cost below the cache lookup: the value computed and stored
ComputeCost(road_type, time, vehicle_type) ==
    IF road_type = -1 THEN Impassable
    ELSE IF vehicle_type = "truck" /\ road_type = 0 THEN Impassable
    ELSE IF road_type = 0 THEN 0
    ELSE LET base_weight == road_weights[road_type][time + 1]
             is_blocked == IsBlocked(base_weight, time, vehicle_type)
             base_cost == base_weight * road_type
         IN  IF is_blocked THEN base_cost * 5 ELSE base_cost

CacheKeyNoClass(road_type, time, vehicle_type) == <<road_type, time>>

\* CostCalculator.get_cost: cache_key
CacheKey(road_type, time, vehicle_type) == <<road_type, time, vehicle_type>>

\* CostCalculator.get_cost on a given cache: the returned value and the cache afterwards
GetCostCached(c, road_type, time, vehicle_type) ==
    LET cache_key == CacheKey(road_type, time, vehicle_type)
    IN  IF cache_key \in DOMAIN c
        THEN [value |-> c[cache_key], cache |-> c]
        ELSE LET v == ComputeCost(road_type, time, vehicle_type)
             IN  [value |-> v,
                  cache |-> [k \in DOMAIN c \cup {cache_key} |->
                                IF k = cache_key THEN v ELSE c[k]]]

----------------------------------------------------------------------------
(* modules/planner.py: scoring *)

CalculateScoreNoFloor(arrival, obj) ==
    IF arrival < obj.release \/ arrival > obj.deadline THEN 0
    ELSE IF arrival = obj.release THEN obj.points
    ELSE obj.points - (late_penalty * (arrival - obj.release))

\* Planner._calculate_score
CalculateScore(arrival, obj) ==
    IF arrival < obj.release \/ arrival > obj.deadline THEN 0
    ELSE IF arrival = obj.release THEN obj.points
    ELSE LET lateness == arrival - obj.release
             points == obj.points - (late_penalty * lateness)
         IN  Max(0, points)

----------------------------------------------------------------------------
(* modules/planner.py: _find_path *)

\* Python's order on lists of integers
ListLess(p, q) ==
    \/ \E i \in 1..Min(Len(p), Len(q)) :
          /\ p[i] < q[i]
          /\ \A j \in 1..(i - 1) : p[j] = q[j]
    \/ /\ Len(p) < Len(q)
       /\ \A j \in 1..Len(p) : p[j] = q[j]

\* Python's order on the heap tuples (f_score, g_score, node, time, path)
TupleLess(a, b) ==
    \/ a.f < b.f
    \/ /\ a.f = b.f
       /\ \/ a.g < b.g
          \/ /\ a.g = b.g
             /\ \/ a.node < b.node
                \/ /\ a.node = b.node
                   /\ \/ a.time < b.time
                      \/ /\ a.time = b.time
                         /\ ListLess(a.path, b.path)

RECURSIVE ArgMin(_, _, _)
\* the position of the smallest tuple of pq (the earliest pushed of equal tuples)
ArgMin(pq, i, best) ==
    IF i > Len(pq) THEN best
    ELSE ArgMin(pq, i + 1, IF TupleLess(pq[i], pq[best]) THEN i ELSE best)

\* pq without its element at position i
Remove(pq, i) == SubSeq(pq, 1, i - 1) \o SubSeq(pq, i + 1, Len(pq))

FoundTargetAnyTime(node, time, target_node, deadline) == node = target_node

FoundTargetLate(node, time, target_node, deadline) ==
    node = target_node /\ time <= deadline + 1

\* _find_path: the test "Found target"
FoundTarget(node, time, target_node, deadline) ==
    node = target_node /\ time <= deadline

RECURSIVE MovePushes(_, _, _, _)
\* _find_path: the pushes of "Option 2: Move" for the neighbours nbs[k..]
MovePushes(e, nbs, k, vehicle_type) ==
    IF k > Len(nbs) THEN <<>>
    ELSE LET next_node == nbs[k][1]
             road_type == nbs[k][2]
             edge_cost == ComputeCost(road_type, e.time, vehicle_type)
             new_g == e.g + edge_cost
         IN  (IF edge_cost = Impassable THEN <<>>
              ELSE << [f |-> new_g, g |-> new_g, node |-> next_node,
                       time |-> e.time + 1, path |-> Append(e.path, next_node)] >>)
             \o MovePushes(e, nbs, k + 1, vehicle_type)

PushesNoWait(e, vehicle_type) ==
    MovePushes(e, GetNeighbors(e.node, vehicle_type), 1, vehicle_type)

\* _find_path: everything pushed when entry e is expanded, in push order
Pushes(e, vehicle_type) ==
    << [f |-> e.g, g |-> e.g, node |-> e.node, time |-> e.time + 1,
        path |-> Append(e.path, e.node)] >>
    \o MovePushes(e, GetNeighbors(e.node, vehicle_type), 1, vehicle_type)

ExceededTimeLate(time, deadline) == time > T \/ time > deadline

\* _find_path: "Exceeded time"
ExceededTime(time, deadline) == time >= T \/ time > deadline

StateKeyNodeOnly(node, time) == <<node>>

\* _find_path: state, the key of visited
StateKey(node, time) == <<node, time>>

\* _find_path: the arguments of the get_cost calls made when entry e is expanded
CostCalls(e, vehicle_type) ==
    LET nbs == GetNeighbors(e.node, vehicle_type)
    IN  {<<nbs[k][2], e.time, vehicle_type>> : k \in 1..Len(nbs)}

\* what a run of _find_path did, for observation: the entries popped, in pop
\* order, each with the number of its push; the states expanded, in order;
\* the arguments of the get_cost calls; the number of pushes
NoLog == [pops |-> <<>>, expanded |-> <<>>, calls |-> {}, pushed |-> 1]

\* _find_path: "return None, float('inf'), self.T"
NoPath == [found |-> FALSE, path |-> <<>>, cost |-> Inf, arrival |-> T]

RECURSIVE FindPathLoop(_, _, _, _, _, _, _)
\* _find_path: the while loop, on the entries of the heap in push order; seqs
\* holds, for each entry of pq, the number of the push that put it there
FindPathLoop(pq, seqs, visited, target_node, vehicle_type, deadline, log) ==
    IF pq = <<>>
    THEN [found |-> NoPath.found, path |-> NoPath.path, cost |-> NoPath.cost,
          arrival |-> NoPath.arrival, pops |-> log.pops, left |-> <<>>,
          expanded |-> log.expanded, calls |-> log.calls]
    ELSE LET i == ArgMin(pq, 2, 1)
             e == pq[i]
             rest == Remove(pq, i)
             rest_seqs == Remove(seqs, i)
             state == StateKey(e.node, e.time)
             popped == [log EXCEPT !.pops = Append(@, [entry |-> e, seq |-> seqs[i]])]
         IN  IF FoundTarget(e.node, e.time, target_node, deadline)
             THEN [found |-> TRUE, path |-> e.path, cost |-> e.g, arrival |-> e.time,
                   pops |-> popped.pops,
                   left |-> [k \in 1..Len(rest) |-> [entry |-> rest[k], seq |-> rest_seqs[k]]],
                   expanded |-> log.expanded, calls |-> log.calls]
             ELSE IF ExceededTime(e.time, deadline)
             THEN FindPathLoop(rest, rest_seqs, visited, target_node, vehicle_type,
                               deadline, popped)
             ELSE IF state \in DOMAIN visited /\ visited[state] <= e.g
             THEN FindPathLoop(rest, rest_seqs, visited, target_node, vehicle_type,
                               deadline, popped)
             ELSE LET pushes == Pushes(e, vehicle_type)
                  IN  FindPathLoop(
                          rest \o pushes,
                          rest_seqs \o [k \in 1..Len(pushes) |-> log.pushed + k],
                          [s \in DOMAIN visited \cup {state} |->
                              IF s = state THEN e.g ELSE visited[s]],
                          target_node, vehicle_type, deadline,
                          [popped EXCEPT !.expanded = Append(@, state),
                                         !.calls = @ \cup CostCalls(e, vehicle_type),
                                         !.pushed = @ + Len(pushes)])

\* Planner._find_path
FindPath(from_node, start_time, target_node, vehicle_type, deadline) ==
    FindPathLoop(<< [f |-> 0, g |-> 0, node |-> from_node, time |-> start_time,
                     path |-> <<from_node>>] >>,
                 <<1>>, <<>>, target_node, vehicle_type, deadline, NoLog)

----------------------------------------------------------------------------
(* modules/planner.py: fleet, priorities, assignment *)

\* Planner.num_trucks
num_trucks == 3

\* Planner.num_drones
num_drones == 2

NewVehicle(id, type) ==
    [id |-> id, type |-> type, current_node |-> start_node, current_time |-> 0,
     path |-> <<start_node>>, total_cost |-> 0, total_points |-> 0,
     objectives |-> <<>>]

\* Planner._init_vehicles: truck1..truck3, then drone1..drone2
InitVehicles ==
    [i \in 1..num_trucks |-> NewVehicle(<<"truck", i>>, "truck")]
    \o [i \in 1..num_drones |-> NewVehicle(<<"drone", i>>, "drone")]

KeyLessPointsOnly(a, b) == (0 - a.points) < (0 - b.points)

\* _prioritize_objectives: priority_key(a) < priority_key(b), where
\* priority_key(obj) = -points / max(1, deadline - release + 1); the two
\* quotients are compared by cross-multiplying with the positive divisors
KeyLess(a, b) ==
    LET wa == Max(1, a.deadline - a.release + 1)
        wb == Max(1, b.deadline - b.release + 1)
    IN  (0 - a.points) * wb < (0 - b.points) * wa

RECURSIVE SortedInsert(_, _)
\* the sorted list of indices done with index i put behind every index whose
\* key is not greater (a stable sort keeps the input order of equal keys)
SortedInsert(done, i) ==
    IF done = <<>> THEN <<i>>
    ELSE LET last == done[Len(done)]
         IN  IF KeyLess(objectives[i], objectives[last])
             THEN Append(SortedInsert(SubSeq(done, 1, Len(done) - 1), i), last)
             ELSE Append(done, i)

RECURSIVE SortedPrefix(_)
SortedPrefix(n) ==
    IF n = 0 THEN <<>> ELSE SortedInsert(SortedPrefix(n - 1), n)

\* Planner._prioritize_objectives: sorted(self.objectives, key=priority_key),
\* as the indices of the objectives in visiting order
PrioritizeObjectives == SortedPrefix(Len(objectives))

WaitStepsShort(arrival, release) == release - arrival - 1

\* _assign_objective, "Wait if arriving before release": wait
WaitSteps(arrival, release) == release - arrival

\* _assign_objective: one pass of the loop "Evaluate each vehicle" up to the
\* benefit, for one vehicle
Candidate(vehicle, obj) ==
    IF vehicle.current_time > obj.deadline
    THEN [cand |-> FALSE, called |-> FALSE, calls |-> {}]
    ELSE LET r == FindPath(vehicle.current_node, vehicle.current_time, obj.node,
                           vehicle.type, obj.deadline)
             returned == [found |-> r.found, path |-> r.path, cost |-> r.cost,
                          arrival |-> r.arrival]
         IN  IF ~r.found
             THEN [cand |-> FALSE, called |-> TRUE, returned |-> returned,
                   calls |-> r.calls]
             ELSE LET early == r.arrival < obj.release
                      wait == WaitSteps(r.arrival, obj.release)
                      path == IF early
                              THEN r.path \o [i \in 1..wait |-> obj.node]
                              ELSE r.path
                      arrival == IF early THEN obj.release ELSE r.arrival
                      points == CalculateScore(arrival, obj)
                  IN  [cand |-> TRUE, called |-> TRUE, returned |-> returned,
                       calls |-> r.calls, path |-> path, cost |-> r.cost,
                       arrival |-> arrival, points |-> points,
                       benefit |-> points - r.cost]

BetterNotPositive(benefit, best_benefit) == benefit > best_benefit

BetterOrEqual(benefit, best_benefit) == benefit >= best_benefit /\ benefit > 0

\* _assign_objective: the test that makes a vehicle the best so far
Better(benefit, best_benefit) == benefit > best_benefit /\ benefit > 0

RECURSIVE SelectBest(_, _, _)
\* _assign_objective: best_vehicle (0 for None) and best_benefit after the
\* vehicles i.. have been looked at, in fleet order
SelectBest(cands, i, best) ==
    IF i > Len(cands) THEN best
    ELSE IF cands[i].cand /\ Better(cands[i].benefit, best.benefit)
    THEN SelectBest(cands, i + 1, [vehicle |-> i, benefit |-> cands[i].benefit])
    ELSE SelectBest(cands, i + 1, best)

AfterWaitNoTick(bv, node) == [bv EXCEPT !.path = Append(@, node)]

\* _assign_objective, commit loop: the branch "Waiting"
AfterWait(bv, node) ==
    [bv EXCEPT !.path = Append(@, node),
               !.current_time = @ + 1]

\* _assign_objective, commit loop: the arguments of the get_cost call of "Moving"
MoveQuery(bv, node) ==
    <<GetRoadType(bv.current_node, node), bv.current_time, bv.type>>

AfterMoveStale(bv, node) ==
    LET edge_cost == ComputeCost(GetRoadType(bv.current_node, node),
                                 bv.current_time + 1, bv.type)
    IN  [bv EXCEPT !.path = Append(@, node),
                   !.current_node = node,
                   !.current_time = @ + 1,
                   !.total_cost = @ + (IF edge_cost = Impassable \/ edge_cost = 0
                                       THEN 0 ELSE edge_cost)]

\* _assign_objective, commit loop: the branch "Moving"
AfterMove(bv, node) ==
    LET q == MoveQuery(bv, node)
        edge_cost == ComputeCost(q[1], q[2], q[3])
    IN  [bv EXCEPT !.path = Append(@, node),
                   !.current_node = node,
                   !.current_time = @ + 1,
                   !.total_cost = @ + (IF edge_cost = Impassable \/ edge_cost = 0
                                       THEN 0 ELSE edge_cost)]

RECURSIVE SumPoints(_, _)
\* sum(v['total_points'] for v in self.vehicles), from vehicle i on
SumPoints(vs, i) ==
    IF i > Len(vs) THEN 0 ELSE vs[i].total_points + SumPoints(vs, i + 1)

RECURSIVE SumCost(_, _)
\* sum(v['total_cost'] for v in self.vehicles), from vehicle i on
SumCost(vs, i) ==
    IF i > Len(vs) THEN 0 ELSE vs[i].total_cost + SumCost(vs, i + 1)

\* Planner.get_total_score, for the fleet vs
GetTotalScore(vs) == SumPoints(vs, 1) - SumCost(vs, 1)

----------------------------------------------------------------------------
(* Inputs *)

\* weather readings at one timestep: calm, both thresholds of both classes
\* exceeded for weight 2, every product exactly on its threshold for weight 2,
\* only the first condition, only the second condition
Profiles ==
    << [earth_shock |-> 0, rainfall |-> 0,  wind |-> 0,  visibility |-> 10],
       [earth_shock |-> 6, rainfall |-> 16, wind |-> 31, visibility |-> 2],
       [earth_shock |-> 5, rainfall |-> 15, wind |-> 30, visibility |-> 3],
       [earth_shock |-> 6, rainfall |-> 0,  wind |-> 31, visibility |-> 10],
       [earth_shock |-> 0, rainfall |-> 16, wind |-> 0,  visibility |-> 2] >>

\* the sensor_data dictionary for a sequence of profiles, one per timestep
SensorData(ps) ==
    [earth_shock |-> [i \in 1..Len(ps) |-> ps[i].earth_shock],
     rainfall    |-> [i \in 1..Len(ps) |-> ps[i].rainfall],
     wind        |-> [i \in 1..Len(ps) |-> ps[i].wind],
     visibility  |-> [i \in 1..Len(ps) |-> ps[i].visibility]]

\* the road_weights dictionary: series of length len that change with time and road type
Weights(off, len) ==
    [r \in 1..MaxRoadType |-> [i \in 1..len |-> (r + i + off) % (MaxWeight + 1)]]

\* the sensor_data dictionary of length len: the profiles in turn, from profile k
Weather(k, len) ==
    SensorData([i \in 1..len |-> Profiles[((k + i - 2) % Len(Profiles)) + 1]])

NoCall == [called |-> FALSE]

\* the planner is not running
PlannerIdle ==
    /\ vehicles = <<>>
    /\ pc = "idle"
    /\ sorted_objs = <<>>
    /\ obj_pos = 0
    /\ pending = NoCall
    /\ last_eval = NoCall
    /\ visits = <<>>
    /\ solution = <<>>
    /\ queried = {}

NoInstance ==
    /\ adjacency_matrix = <<>>
    /\ T = 0
    /\ start_node = 0
    /\ objectives = <<>>

----------------------------------------------------------------------------
(* Specification of the cost model: get_cost calls on one CostCalculator *)

CostTimes == 0..(Len(sensors.wind) - 1)

InitCost ==
    /\ NoInstance
    /\ PlannerIdle
    /\ late_penalty = 0
    /\ \E off \in 0..MaxWeight : road_weights = Weights(off, 2)
    /\ \E k \in 1..Len(Profiles) : sensors = Weather(k, 2)
    /\ cache = <<>>
    /\ ret = NoCall
    /\ score_call = NoCall
    /\ fp_call = NoCall
    /\ graph_call = NoCall

GetCost(road_type, time, vehicle_type) ==
    /\ \/ CacheKey(road_type, time, vehicle_type) \in DOMAIN cache
       \/ Cardinality(DOMAIN cache) < MaxCache
    /\ LET r == GetCostCached(cache, road_type, time, vehicle_type)
       IN  /\ cache' = r.cache
           /\ ret' = [called |-> TRUE, road_type |-> road_type, time |-> time,
                      vehicle_type |-> vehicle_type, value |-> r.value,
                      hit |-> CacheKey(road_type, time, vehicle_type) \in DOMAIN cache]
    /\ UNCHANGED <<instance_vars, planner_vars, score_call, fp_call, graph_call>>

NextCost ==
    \E road_type \in RoadTypes, time \in CostTimes, vehicle_type \in VehicleTypes :
        GetCost(road_type, time, vehicle_type)

SpecCost == InitCost /\ [][NextCost]_vars

----------------------------------------------------------------------------
(* Specification of the scoring rule: _calculate_score calls *)

Windows == {w \in (0..MaxTime) \X (0..MaxTime) : w[1] <= w[2]}

InitScore ==
    /\ adjacency_matrix = <<>>
    /\ T = 0
    /\ start_node = 0
    /\ road_weights = <<>>
    /\ sensors = <<>>
    /\ PlannerIdle
    /\ \E w \in Windows, p \in 0..MaxPoints :
          objectives = << [node |-> 0, release |-> w[1], deadline |-> w[2], points |-> p] >>
    /\ late_penalty \in 0..MaxPenalty
    /\ cache = <<>>
    /\ ret = NoCall
    /\ score_call = NoCall
    /\ fp_call = NoCall
    /\ graph_call = NoCall

Score(arrival) ==
    /\ ~score_call.called
    /\ score_call' = [called |-> TRUE, arrival |-> arrival, obj |-> objectives[1],
                      value |-> CalculateScore(arrival, objectives[1])]
    /\ UNCHANGED <<instance_vars, planner_vars, cache, ret, fp_call, graph_call>>

NextScore == \E arrival \in 0..(MaxTime + 1) : Score(arrival)

SpecScore == InitScore /\ [][NextScore]_vars

----------------------------------------------------------------------------
(* Specification of the pathfinder: _find_path calls on one network *)

\* three nodes; the roads 0->1, 1->2 and 0->2 vary, 1->0 and 2->0 are ground
\* roads and node 1 has an airspace loop
PathNetworks ==
    { << <<-1, a, c>>, <<1, 0, b>>, <<2, -1, -1>> >> :
        a \in {-1, 0, 1, 2}, b \in {-1, 0, 1, 2}, c \in {-1, 2} }

\* the length of the weight and sensor series: they cover the horizon, every
\* deadline and one timestep more
SeriesLen == Max(MaxT, MaxTime) + 1

InitPath ==
    /\ adjacency_matrix \in PathNetworks
    /\ T \in 1..MaxT
    /\ \E off \in 0..MaxWeight : road_weights = Weights(off, SeriesLen)
    /\ \E k \in 1..Len(Profiles) : sensors = Weather(k, SeriesLen)
    /\ start_node = 0
    /\ objectives = <<>>
    /\ late_penalty = 0
    /\ PlannerIdle
    /\ cache = <<>>
    /\ ret = NoCall
    /\ score_call = NoCall
    /\ fp_call = NoCall
    /\ graph_call = NoCall

FindPathCall(from_node, start_time, target_node, vehicle_type, deadline) ==
    /\ ~fp_call.called
    /\ fp_call' = [called |-> TRUE, from_node |-> from_node, start_time |-> start_time,
                   target_node |-> target_node, vehicle_type |-> vehicle_type,
                   deadline |-> deadline,
                   result |-> FindPath(from_node, start_time, target_node,
                                       vehicle_type, deadline)]
    /\ UNCHANGED <<instance_vars, planner_vars, cache, ret, score_call, graph_call>>

NextPath ==
    \E from_node \in Nodes, start_time \in {0, 1}, target_node \in Nodes,
       vehicle_type \in VehicleTypes, deadline \in 0..MaxTime :
        FindPathCall(from_node, start_time, target_node, vehicle_type, deadline)

SpecPath == InitPath /\ [][NextPath]_vars

----------------------------------------------------------------------------
(* Specification of the network: calls of the methods of one Graph *)

\* the node arguments tried: every node and MaxOutside integers on each side
GraphIndexes == (0 - num_nodes - MaxOutside)..(num_nodes - 1 + MaxOutside)

InitGraph ==
    /\ adjacency_matrix \in PathNetworks
    /\ T = 0
    /\ start_node = 0
    /\ objectives = <<>>
    /\ late_penalty = 0
    /\ road_weights = <<>>
    /\ sensors = <<>>
    /\ PlannerIdle
    /\ cache = <<>>
    /\ ret = NoCall
    /\ score_call = NoCall
    /\ fp_call = NoCall
    /\ graph_call = NoCall

graph_frame == <<instance_vars, planner_vars, cache, ret, score_call, fp_call>>

GetNeighborsCall(node, vehicle_type) ==
    /\ ~graph_call.called
    /\ graph_call' = [called |-> TRUE, method |-> "get_neighbors", nodes |-> {node},
                      outcome |-> GetNeighborsOutcome(node, vehicle_type)]
    /\ UNCHANGED graph_frame

IsValidEdgeCall(from_node, to_node, vehicle_type) ==
    /\ ~graph_call.called
    /\ graph_call' = [called |-> TRUE, method |-> "is_valid_edge",
                      nodes |-> {from_node, to_node},
                      outcome |-> IsValidEdgeOutcome(from_node, to_node, vehicle_type)]
    /\ UNCHANGED graph_frame

GetRoadTypeCall(from_node, to_node) ==
    /\ ~graph_call.called
    /\ graph_call' = [called |-> TRUE, method |-> "get_road_type",
                      nodes |-> {from_node, to_node},
                      outcome |-> GetRoadTypeOutcome(from_node, to_node)]
    /\ UNCHANGED graph_frame

NextGraph ==
    \/ \E node \in GraphIndexes, vehicle_type \in VehicleTypes :
          GetNeighborsCall(node, vehicle_type)
    \/ \E from_node \in GraphIndexes, to_node \in GraphIndexes,
          vehicle_type \in VehicleTypes :
          IsValidEdgeCall(from_node, to_node, vehicle_type)
    \/ \E from_node \in GraphIndexes, to_node \in GraphIndexes :
          GetRoadTypeCall(from_node, to_node)

SpecGraph == InitGraph /\ [][NextGraph]_vars

----------------------------------------------------------------------------
(* Specification of the planner: one Planner.solve on one problem instance *)

\* road networks of three nodes with the weight offset, the first weather
\* profile, the late penalty and the start node used with them:
\* ground roads in a line; an airspace shortcut 0->2 next to ground roads;
\* node 2 cut off, a one-way road 1->0 and a ground loop on node 0; a ring of
\* mixed roads
Scenarios ==
    { [map |-> << <<-1, 1, -1>>, <<1, -1, 2>>, <<-1, 2, -1>> >>,
       off |-> 0, k |-> 1, late_penalty |-> 1, start_node |-> 0],
      [map |-> << <<-1, 2, 0>>, <<1, -1, 1>>, <<0, -1, -1>> >>,
       off |-> 1, k |-> 2, late_penalty |-> 0, start_node |-> 0],
      [map |-> << <<1, -1, -1>>, <<1, -1, -1>>, <<-1, -1, -1>> >>,
       off |-> 2, k |-> 1, late_penalty |-> 2, start_node |-> 1],
      [map |-> << <<-1, 1, 0>>, <<2, 0, 1>>, <<1, -1, -1>> >>,
       off |-> 0, k |-> 2, late_penalty |-> 1, start_node |-> 0] }

\* time windows [release, deadline]: a single timestep, or open until MaxTime
PlanWindows == {w \in Windows : w[2] = w[1] \/ w[2] = MaxTime}

ObjectivePool ==
    { [node |-> n, release |-> w[1], deadline |-> w[2], points |-> p] :
        n \in 0..2, w \in PlanWindows, p \in {1, MaxPoints} }

\* the second objective of an instance: open from the start, or due at time 1
SecondPool ==
    { o \in ObjectivePool :
        <<o.release, o.deadline>> \in {<<0, MaxTime>>, <<1, 1>>} }

\* the objectives of an instance: one objective, or two
ObjectiveLists ==
    { <<a>> : a \in ObjectivePool } \cup { <<a, b>> : a \in ObjectivePool, b \in SecondPool }

\* the state after Planner.__init__
Init ==
    /\ \E sc \in Scenarios :
          /\ adjacency_matrix = sc.map
          /\ late_penalty = sc.late_penalty
          /\ start_node = sc.start_node
          /\ \E horizon \in 1..MaxT :
                /\ T = horizon
                /\ road_weights = Weights(sc.off, SeriesLen)
                /\ sensors = Weather(sc.k, SeriesLen)
    /\ objectives \in ObjectiveLists
    /\ vehicles = InitVehicles
    /\ pc = "start"
    /\ sorted_objs = <<>>
    /\ obj_pos = 0
    /\ pending = NoCall
    /\ last_eval = NoCall
    /\ visits = [i \in 1..Len(objectives) |-> 0]
    /\ solution = <<>>
    /\ queried = {}
    /\ cache = <<>>
    /\ ret = NoCall
    /\ score_call = NoCall
    /\ fp_call = NoCall
    /\ graph_call = NoCall

other_vars == <<instance_vars, cache, ret, score_call, fp_call, graph_call>>

\* solve: sorted_objs = self._prioritize_objectives()
Prioritize ==
    /\ pc = "start"
    /\ sorted_objs' = PrioritizeObjectives
    /\ pc' = "loop"
    /\ UNCHANGED <<vehicles, obj_pos, pending, last_eval, visits, solution, queried,
                   other_vars>>

NextPosStuck(pos) == pos

\* the position of the for loop of solve after one more objective
NextPos(pos) == pos + 1

\* solve: the for loop takes the next objective; _assign_objective evaluates
\* every vehicle and picks the best one
Evaluate ==
    /\ pc = "loop"
    /\ obj_pos < Len(sorted_objs)
    /\ \E o \in {sorted_objs[obj_pos + 1]} :
       \E cands \in {[i \in 1..Len(vehicles) |-> Candidate(vehicles[i], objectives[o])]} :
       \E best \in {SelectBest(cands, 1, [vehicle |-> 0, benefit |-> 0 - Inf])} :
          /\ visits' = [visits EXCEPT ![o] = @ + 1]
          /\ last_eval' = [called |-> TRUE, obj |-> o, cands |-> cands,
                           winner |-> best.vehicle, before |-> vehicles]
          /\ queried' = queried \cup UNION {cands[i].calls : i \in 1..Len(cands)}
          /\ IF best.vehicle # 0
             THEN /\ pending' = [called |-> TRUE, obj |-> o, vehicle |-> best.vehicle,
                                 path |-> cands[best.vehicle].path,
                                 cost |-> cands[best.vehicle].cost,
                                 arrival |-> cands[best.vehicle].arrival,
                                 points |-> cands[best.vehicle].points,
                                 k |-> 2]
                  /\ pc' = "commit"
                  /\ obj_pos' = obj_pos
             ELSE /\ pending' = NoCall
                  /\ pc' = "loop"
                  /\ obj_pos' = NextPos(obj_pos)
    /\ UNCHANGED <<vehicles, sorted_objs, solution, other_vars>>

\* _assign_objective: one pass of "for node in path[1:]"
CommitStep ==
    /\ pc = "commit"
    /\ pending.k <= Len(pending.path)
    /\ LET node == pending.path[pending.k]
           bv == vehicles[pending.vehicle]
       IN  vehicles' = [vehicles EXCEPT ![pending.vehicle] =
               IF node = bv.current_node THEN AfterWait(bv, node)
               ELSE AfterMove(bv, node)]
    /\ LET node == pending.path[pending.k]
           bv == vehicles[pending.vehicle]
       IN  queried' = IF node = bv.current_node THEN queried
                      ELSE queried \cup {MoveQuery(bv, node)}
    /\ pending' = [pending EXCEPT !.k = @ + 1]
    /\ UNCHANGED <<pc, sorted_objs, obj_pos, last_eval, visits, solution, other_vars>>

\* _assign_objective: the points and the objective are booked on the best vehicle
CommitEnd ==
    /\ pc = "commit"
    /\ pending.k > Len(pending.path)
    /\ vehicles' = [vehicles EXCEPT ![pending.vehicle] =
           [@ EXCEPT !.total_points = @ + pending.points,
                     !.objectives = Append(@, pending.obj)]]
    /\ pending' = NoCall
    /\ pc' = "loop"
    /\ obj_pos' = NextPos(obj_pos)
    /\ UNCHANGED <<sorted_objs, last_eval, visits, solution, queried, other_vars>>

PaddedWithStart(vehicle) ==
    IF Len(vehicle.path) < T
    THEN [vehicle EXCEPT !.path =
             @ \o [i \in 1..(T - Len(vehicle.path)) |-> start_node]]
    ELSE vehicle

\* solve: "Extend to T steps" for one vehicle
Padded(vehicle) ==
    IF Len(vehicle.path) < T
    THEN [vehicle EXCEPT !.path =
             @ \o [i \in 1..(T - Len(vehicle.path)) |-> vehicle.current_node]]
    ELSE vehicle

\* solve: after the for loop every path is extended and the solution returned
Finalize ==
    /\ pc = "loop"
    /\ obj_pos >= Len(sorted_objs)
    /\ vehicles' = [i \in 1..Len(vehicles) |-> Padded(vehicles[i])]
    /\ solution' = [i \in 1..Len(vehicles) |->
                       [id |-> vehicles[i].id, path |-> Padded(vehicles[i]).path]]
    /\ pc' = "done"
    /\ UNCHANGED <<sorted_objs, obj_pos, pending, last_eval, visits, queried, other_vars>>

Next == Prioritize \/ Evaluate \/ CommitStep \/ CommitEnd \/ Finalize

Spec == Init /\ [][Next]_vars

----------------------------------------------------------------------------
(* Specification of the planner on inputs that are structurally invalid:     *)
(* Graph.__init__, CostCalculator.__init__ and Planner.__init__ store what   *)
(* they are given, so a solve can start from these inputs as well            *)

SensorNames == {"earth_shock", "rainfall", "wind", "visibility"}

\* the input is structurally valid: a square matrix of road types, a weight
\* series for each ground road type, the four sensor series, and every
\* objective on a node of the network
ValidInput ==
    /\ \A r \in 1..num_nodes :
          /\ Len(adjacency_matrix[r]) = num_nodes
          /\ \A k \in 1..num_nodes : adjacency_matrix[r][k] \in RoadTypes
    /\ DOMAIN road_weights = 1..MaxRoadType
    /\ DOMAIN sensors = SensorNames
    /\ \A o \in 1..Len(objectives) : objectives[o].node \in Nodes

\* the ground road types of a matrix
UsedTypes(map) ==
    {map[r][k] : r \in 1..Len(map), k \in 1..Len(map)} \ {NoRoad, Airspace}

\* objectives on any node from -1 to N, N = 3
AnyNodePool ==
    { [node |-> n, release |-> w[1], deadline |-> w[2], points |-> MaxPoints] :
        n \in (0 - 1)..3, w \in {<<0, MaxTime>>, <<1, 1>>} }

\* the kinds of invalid input: an objective outside the network, a matrix
\* with one column too many, no weight series for the road types the matrix
\* does not use
InvalidKinds == {"objective", "matrix", "weights"}

InitInvalid ==
    /\ \E sc \in Scenarios, kind \in InvalidKinds :
          /\ adjacency_matrix =
                 IF kind = "matrix"
                 THEN [r \in 1..Len(sc.map) |-> Append(sc.map[r], 1)]
                 ELSE sc.map
          /\ road_weights =
                 IF kind = "weights"
                 THEN [r \in UsedTypes(sc.map) |-> Weights(sc.off, SeriesLen)[r]]
                 ELSE Weights(sc.off, SeriesLen)
          /\ sensors = Weather(sc.k, SeriesLen)
          /\ late_penalty = sc.late_penalty
          /\ start_node = sc.start_node
          /\ objectives \in { <<a>> : a \in AnyNodePool }
                               \cup { <<a, b>> : a \in AnyNodePool, b \in AnyNodePool }
          /\ kind = "objective" =>
                \E o \in 1..Len(objectives) : objectives[o].node \notin 0..2
          /\ kind # "objective" =>
                \A o \in 1..Len(objectives) : objectives[o].node \in 0..2
    /\ T \in 1..MaxT
    /\ vehicles = InitVehicles
    /\ pc = "start"
    /\ sorted_objs = <<>>
    /\ obj_pos = 0
    /\ pending = NoCall
    /\ last_eval = NoCall
    /\ visits = [i \in 1..Len(objectives) |-> 0]
    /\ solution = <<>>
    /\ queried = {}
    /\ cache = <<>>
    /\ ret = NoCall
    /\ score_call = NoCall
    /\ fp_call = NoCall
    /\ graph_call = NoCall

SpecInvalid == InitInvalid /\ [][Next]_vars

----------------------------------------------------------------------------
(* C1: the cost _find_path returns is the minimum *)

RECURSIVE BestCost(_, _, _, _, _, _)
\* the minimum total cost over all wait/move sequences from (node, time) that
\* reach target at a time <= deadline and take every step at a time < horizon
\* (Inf when there is none): waits cost 0, a move taken at time t costs
\* get_cost(road_type, t, class) and exists when that cost is not impassable
BestCost(node, time, target, v, deadline, horizon) ==
    IF time > deadline THEN Inf
    ELSE IF node = target THEN 0
    ELSE IF time >= deadline \/ time >= horizon THEN Inf
    ELSE LET Via(n) ==
                 LET c == ComputeCost(adjacency_matrix[node + 1][n + 1], time, v)
                 IN  IF c = Impassable THEN Inf
                     ELSE Min(Inf, c + BestCost(n, time + 1, target, v, deadline, horizon))
             wait == BestCost(node, time + 1, target, v, deadline, horizon)
             moves == {Via(n) : n \in Nodes}
         IN  CHOOSE m \in moves \cup {wait} : \A x \in moves \cup {wait} : m <= x

\* C1 as claimed: whenever some wait/move sequence reaches the target at a
\* time <= deadline, _find_path returns the minimum total cost over all such
\* sequences.
C1_MinOverAllSequences ==
    fp_call.called =>
        LET best == BestCost(fp_call.from_node, fp_call.start_time, fp_call.target_node,
                             fp_call.vehicle_type, fp_call.deadline, fp_call.deadline)
        IN  best < Inf => fp_call.result.found /\ fp_call.result.cost = best

\* C1 amended: whenever some wait/move sequence that takes every step at a
\* time < T reaches the target at a time <= deadline, _find_path returns the
\* minimum total cost over all such sequences.
C1_MinWithinHorizon ==
    fp_call.called =>
        LET best == BestCost(fp_call.from_node, fp_call.start_time, fp_call.target_node,
                             fp_call.vehicle_type, fp_call.deadline, T)
        IN  best < Inf => fp_call.result.found /\ fp_call.result.cost = best

\* a path was returned that waits before it moves and still has a cost
C1_Witness ==
    /\ fp_call.called
    /\ fp_call.result.found
    /\ fp_call.result.cost > 0
    /\ Len(fp_call.result.path) >= 3
    /\ fp_call.result.path[1] = fp_call.result.path[2]
    /\ fp_call.result.path[1] # fp_call.target_node
    /\ fp_call.deadline <= T

----------------------------------------------------------------------------
(* C2: the result of _find_path is well formed *)

\* C2: a returned path starts at the start node, has one entry per timestep
\* from start_time to arrival, ends at the target with arrival <= deadline, and
\* each consecutive pair is a wait or an edge of get_neighbors for the vehicle
\* class whose cost at that timestep is not impassable.
C2_PathWellFormed ==
    (fp_call.called /\ fp_call.result.found) =>
        LET r == fp_call.result
            v == fp_call.vehicle_type
        IN  /\ r.path[1] = fp_call.from_node
            /\ Len(r.path) = r.arrival - fp_call.start_time + 1
            /\ r.path[Len(r.path)] = fp_call.target_node
            /\ r.arrival <= fp_call.deadline
            /\ \A i \in 1..(Len(r.path) - 1) :
                  \/ r.path[i] = r.path[i + 1]
                  \/ LET nbs == GetNeighbors(r.path[i], v)
                     IN  \E k \in 1..Len(nbs) :
                            /\ nbs[k][1] = r.path[i + 1]
                            /\ ComputeCost(nbs[k][2], fp_call.start_time + i - 1, v)
                                   # Impassable

\* a path with a wait and two moves was returned, arriving exactly at the deadline
C2_Witness ==
    /\ fp_call.called
    /\ fp_call.result.found
    /\ fp_call.result.arrival = fp_call.deadline
    /\ \E i, j, k \in 1..(Len(fp_call.result.path) - 1) :
          /\ fp_call.result.path[i] = fp_call.result.path[i + 1]
          /\ fp_call.result.path[j] # fp_call.result.path[j + 1]
          /\ k # j
          /\ fp_call.result.path[k] # fp_call.result.path[k + 1]

----------------------------------------------------------------------------
(* C3: every returned path has length T *)

\* C3: after solve returns, the path of each of the five vehicles has length
\* exactly T.
C3_PathLengthIsT ==
    pc = "done" =>
        /\ Len(solution) = 5
        /\ \A i \in 1..Len(solution) : Len(solution[i].path) = T

----------------------------------------------------------------------------
(* C4: an objective is assigned at most once and visited once *)

\* the places (vehicle, position) where objective o is booked
Bookings(o) ==
    {ik \in (1..Len(vehicles)) \X (1..Len(objectives)) :
        /\ ik[2] <= Len(vehicles[ik[1]].objectives)
        /\ vehicles[ik[1]].objectives[ik[2]] = o}

\* C4: every objective is in the assigned list of at most one vehicle, at most
\* once, and is handed to _assign_objective at most once in a solve.
C4_AssignedAtMostOnce ==
    \A o \in 1..Len(objectives) :
        /\ Cardinality(Bookings(o)) <= 1
        /\ visits[o] <= 1

\* a solve ended with two objectives booked
C4_Witness ==
    /\ pc = "done"
    /\ Len(objectives) = 2
    /\ \A o \in 1..2 : Cardinality(Bookings(o)) = 1 /\ visits[o] = 1

----------------------------------------------------------------------------
(* C5: current_time and the length of the path *)

\* C5 as claimed: at every point of a solve, the Phase 3 padding included,
\* every vehicle has current_time = len(path) - 1.
C5_TimeIsPathLength ==
    \A i \in 1..Len(vehicles) :
        vehicles[i].current_time = Len(vehicles[i].path) - 1

\* C5 amended: until the padding every vehicle has current_time =
\* len(path) - 1; the padding extends the path to T entries and leaves
\* current_time alone, so afterwards len(path) = max(T, current_time + 1).
C5_TimeIsPathLengthUntilPadding ==
    \A i \in 1..Len(vehicles) :
        /\ pc # "done" => vehicles[i].current_time = Len(vehicles[i].path) - 1
        /\ pc = "done" =>
              Len(vehicles[i].path) = Max(T, vehicles[i].current_time + 1)

\* a solve ended in which a vehicle took the steps of a committed path and its
\* path was then padded
C5_Witness ==
    /\ pc = "done"
    /\ \E i \in 1..Len(vehicles) :
          /\ vehicles[i].current_time >= 1
          /\ vehicles[i].objectives # <<>>
          /\ Len(vehicles[i].path) = T
          /\ T > vehicles[i].current_time + 1

----------------------------------------------------------------------------
(* C6: current_time never exceeds T *)

\* C6: in every state of a solve no vehicle's current_time exceeds T.
C6_TimeWithinHorizon ==
    \A i \in 1..Len(vehicles) : vehicles[i].current_time <= T

----------------------------------------------------------------------------
(* C18: where and when a committed objective is reached *)

\* C18: when an objective is committed, the arrival passed to
\* _calculate_score lies in [release, deadline]; the committed path is the
\* path of _find_path, extended, when that arrives before release, only by
\* entries of the objective's node up to arrival = release; after the commit
\* the winner's current_time is that arrival and its current_node is the
\* objective's node.
C18_CommitWithinWindow ==
    (last_eval.called /\ last_eval.winner # 0) =>
        LET obj == objectives[last_eval.obj]
            c == last_eval.cands[last_eval.winner]
            found == c.returned
            extra == Len(c.path) - Len(found.path)
        IN  /\ obj.release <= c.arrival /\ c.arrival <= obj.deadline
            /\ found.path[Len(found.path)] = obj.node
            /\ SubSeq(c.path, 1, Len(found.path)) = found.path
            /\ \A k \in (Len(found.path) + 1)..Len(c.path) : c.path[k] = obj.node
            /\ extra = IF found.arrival < obj.release
                       THEN obj.release - found.arrival ELSE 0
            /\ c.arrival = found.arrival + extra
            /\ pc # "commit" =>
                  /\ vehicles[last_eval.winner].current_time = c.arrival
                  /\ vehicles[last_eval.winner].current_node = obj.node

\* a vehicle moved to an objective, arrived before its release and waited
\* there; the commit is complete
C18_Witness ==
    /\ last_eval.called
    /\ last_eval.winner # 0
    /\ pc = "loop"
    /\ Len(last_eval.cands[last_eval.winner].returned.path) >= 2
    /\ last_eval.cands[last_eval.winner].returned.arrival
           < objectives[last_eval.obj].release
    /\ vehicles[last_eval.winner].current_time = objectives[last_eval.obj].release

----------------------------------------------------------------------------
(* C19: the cost booked by a commit, and the total score *)

\* C19: a commit adds to the winner's total_cost, by pricing each move of the
\* committed path again at the vehicle's time, exactly the cost _find_path
\* returned for the path, and adds the points, so get_total_score grows by the
\* winning benefit, which is > 0; between the objectives the total score
\* therefore never decreases, and it is >= 0 when solve ends.  (Inside one
\* commit the costs are booked before the points.)
C19_CommitBooksPathCost ==
    /\ (last_eval.called /\ pc # "commit") =>
          LET w == last_eval.winner
              before == last_eval.before
          IN  /\ GetTotalScore(vehicles) >= GetTotalScore(before)
              /\ w # 0 =>
                    LET c == last_eval.cands[w]
                    IN  /\ vehicles[w].total_cost
                               = before[w].total_cost + c.returned.cost
                        /\ vehicles[w].total_points = before[w].total_points + c.points
                        /\ c.benefit = c.points - c.returned.cost
                        /\ c.benefit > 0
                        /\ GetTotalScore(vehicles) = GetTotalScore(before) + c.benefit
    /\ pc # "commit" => GetTotalScore(vehicles) >= 0

\* a vehicle that had already paid for the moves of an earlier objective
\* committed a second path, at a later time, with a cost > 0
C19_Witness ==
    /\ last_eval.called
    /\ last_eval.winner # 0
    /\ pc = "loop"
    /\ last_eval.before[last_eval.winner].total_cost > 0
    /\ last_eval.before[last_eval.winner].current_time > 0
    /\ last_eval.cands[last_eval.winner].returned.cost > 0
    /\ vehicles[last_eval.winner].total_cost
           = last_eval.before[last_eval.winner].total_cost
             + last_eval.cands[last_eval.winner].returned.cost

----------------------------------------------------------------------------
(* C20: the returned paths use legal edges *)

\* validate_solution, "Check path validity": the positions t of a path whose
\* step to t + 1 is reported as an error for the vehicle class
EdgeErrors(path, vehicle_type) ==
    {t \in 1..(Len(path) - 1) :
        /\ path[t] # path[t + 1]
        /\ ~IsValidEdge(path[t], path[t + 1], vehicle_type)}

\* C20: in the solution solve returns, the path of every vehicle starts at
\* start_node and each of its steps either stays on the node or uses an edge
\* that is_valid_edge accepts for the vehicle's class, so the edge check of
\* validate_solution reports nothing.
C20_SolutionEdgesLegal ==
    pc = "done" =>
        \A i \in 1..Len(solution) :
            /\ solution[i].path[1] = start_node
            /\ EdgeErrors(solution[i].path, solution[i].id[1]) = {}

\* a solve ended in which a truck moved over a ground road and was then
\* padded on a node other than start_node, and a drone flew through airspace
C20_Witness ==
    /\ pc = "done"
    /\ \E i \in 1..Len(solution) :
          /\ solution[i].id[1] = "truck"
          /\ \E j \in 1..vehicles[i].current_time :
                solution[i].path[j] # solution[i].path[j + 1]
          /\ Len(solution[i].path) > vehicles[i].current_time + 1
          /\ solution[i].path[Len(solution[i].path)] # start_node
    /\ \E i \in 1..Len(solution) :
          /\ solution[i].id[1] = "drone"
          /\ \E j \in 1..(Len(solution[i].path) - 1) :
                /\ solution[i].path[j] # solution[i].path[j + 1]
                /\ GetRoadType(solution[i].path[j], solution[i].path[j + 1]) = Airspace

----------------------------------------------------------------------------
(* C21: _find_path ends, and expands a state at most once *)

\* C21: every call of _find_path ends, with a path or with (None, +infinity,
\* T): the states it expands are pairs (node, time) with a time from
\* start_time to below both T and deadline + 1, no pair is expanded twice, and
\* it pops at most the start entry and the 1 + N entries pushed per
\* expansion; the same node at another time is another state: the first
\* entry popped for a pair, when it is neither the target in time nor beyond
\* the time limits, is expanded whatever was expanded for its node before.
C21_ExpandedAtMostOnce ==
    fp_call.called =>
        LET r == fp_call.result
            pops == r.pops
            ex == r.expanded
        IN  /\ \/ r.found
               \/ [found |-> r.found, path |-> r.path, cost |-> r.cost,
                    arrival |-> r.arrival] = NoPath
            /\ \A a, b \in 1..Len(ex) : a < b => ex[a] # ex[b]
            /\ \A a \in 1..Len(ex) :
                  ex[a] \in Nodes \X (fp_call.start_time..(Min(T, fp_call.deadline + 1) - 1))
            /\ Len(pops) <= 1 + Len(ex) * (1 + num_nodes)
            /\ \A a \in 1..Len(pops) :
                  LET e == pops[a].entry
                  IN  (/\ ~(e.node = fp_call.target_node /\ e.time <= fp_call.deadline)
                       /\ e.time < T
                       /\ e.time <= fp_call.deadline
                       /\ \A b \in 1..(a - 1) :
                             <<pops[b].entry.node, pops[b].entry.time>> # <<e.node, e.time>>)
                      => \E k \in 1..Len(ex) : ex[k] = <<e.node, e.time>>

\* a call expanded the same node at two different times and popped a second
\* entry for a pair it had already expanded, which it did not expand again
C21_Witness ==
    /\ fp_call.called
    /\ \E a, b \in 1..Len(fp_call.result.expanded) :
          /\ fp_call.result.expanded[a][1] = fp_call.result.expanded[b][1]
          /\ fp_call.result.expanded[a][2] # fp_call.result.expanded[b][2]
    /\ \E a, b \in 1..Len(fp_call.result.pops) :
          /\ a < b
          /\ fp_call.result.pops[a].entry.node = fp_call.result.pops[b].entry.node
          /\ fp_call.result.pops[a].entry.time = fp_call.result.pops[b].entry.time
          /\ \E k \in 1..Len(fp_call.result.expanded) :
                fp_call.result.expanded[k]
                    = <<fp_call.result.pops[a].entry.node, fp_call.result.pops[a].entry.time>>

----------------------------------------------------------------------------
(* C22: what processing one objective changes *)

\* C22, in a state: while an objective is processed and until the next one
\* is taken, every vehicle but the winner is as it was before the evaluation;
\* all vehicles are evaluated before any changes: right after the evaluation
\* every vehicle is still as it was; with no candidate of positive benefit
\* there is no winner and every vehicle is as it was.
C22_FrameState ==
    (last_eval.called /\ pc # "done") =>
        LET c == last_eval.cands
            w == last_eval.winner
            before == last_eval.before
        IN  /\ Len(c) = Len(vehicles)
            /\ \A i \in 1..Len(vehicles) : i # w => vehicles[i] = before[i]
            /\ (pc = "commit" /\ pending.k = 2) => vehicles = before
            /\ (\A i \in 1..Len(c) : ~(c[i].cand /\ c[i].benefit > 0)) =>
                  /\ w = 0
                  /\ vehicles = before

\* C22: processing one objective changes the state of at most one vehicle,
\* the winner, and only in the commit that follows the evaluation of all
\* vehicles; apart from the padding at the end of solve, no other step changes
\* a vehicle.
C22_OnlyWinnerChanges ==
    /\ []C22_FrameState
    /\ [][\A i \in 1..Len(vehicles) :
             vehicles'[i] # vehicles[i] =>
                 \/ pc = "commit" /\ i = last_eval.winner
                 \/ pc = "loop" /\ pc' = "done"]_vars

\* a second objective was committed by one vehicle while another vehicle,
\* which serves the first objective, stayed as it was
C22_Witness ==
    /\ last_eval.called
    /\ last_eval.winner # 0
    /\ pc = "loop"
    /\ vehicles[last_eval.winner] # last_eval.before[last_eval.winner]
    /\ \E i \in 1..Len(vehicles) :
          /\ i # last_eval.winner
          /\ vehicles[i].objectives # <<>>
          /\ vehicles[i] = last_eval.before[i]

----------------------------------------------------------------------------
(* C9: which vehicle wins an objective *)

\* C9: an objective is committed exactly when some candidate has a benefit
\* > 0; the winner is a candidate of maximum benefit, and the first of them in
\* the order truck1, truck2, truck3, drone1, drone2; the objective is booked on
\* the winner and on no other vehicle.
C9_WinnerIsFirstBest ==
    last_eval.called =>
        LET c == last_eval.cands
            w == last_eval.winner
        IN  /\ w # 0 <=> \E i \in 1..Len(c) : c[i].cand /\ c[i].benefit > 0
            /\ w # 0 =>
                  /\ c[w].cand
                  /\ \A i \in 1..Len(c) :
                        c[i].cand =>
                            /\ c[i].benefit <= c[w].benefit
                            /\ i < w => c[i].benefit < c[w].benefit
            /\ [i \in 1..Len(vehicles) |-> vehicles[i].id]
                   = << <<"truck", 1>>, <<"truck", 2>>, <<"truck", 3>>,
                        <<"drone", 1>>, <<"drone", 2>> >>
            /\ pc = "commit" <=> (w # 0 /\ Bookings(last_eval.obj) = {})
            /\ \A ik \in Bookings(last_eval.obj) : ik[1] = w

\* a drone won an objective for which a truck had a smaller positive benefit
\* and the other drone the same benefit
C9_Witness ==
    /\ last_eval.called
    /\ last_eval.winner = 4
    /\ last_eval.cands[1].cand
    /\ last_eval.cands[1].benefit > 0
    /\ last_eval.cands[5].cand
    /\ last_eval.cands[5].benefit = last_eval.cands[4].benefit
    /\ Cardinality(Bookings(last_eval.obj)) = 1

----------------------------------------------------------------------------
(* C10: the order in which objectives are visited *)

\* priority_key(a) <= priority_key(b) for the key -points / max(1, window)
RefKeyLeq(a, b) ==
    b.points * Max(1, a.deadline - a.release + 1)
        <= a.points * Max(1, b.deadline - b.release + 1)

\* the number of objectives of sorted_objs that have been visited
Visited == IF pc = "commit" THEN obj_pos + 1 ELSE obj_pos

\* C10, in a state: once computed, sorted_objs holds every objective once, in
\* ascending order of the key and, for equal keys, in input order; the
\* objectives visited so far are the first ones of sorted_objs.
C10_OrderState ==
    pc # "start" =>
        /\ Len(sorted_objs) = Len(objectives)
        /\ {sorted_objs[j] : j \in 1..Len(sorted_objs)} = 1..Len(objectives)
        /\ \A j, k \in 1..Len(sorted_objs) :
              j < k =>
                  /\ RefKeyLeq(objectives[sorted_objs[j]], objectives[sorted_objs[k]])
                  /\ RefKeyLeq(objectives[sorted_objs[k]], objectives[sorted_objs[j]])
                         => sorted_objs[j] < sorted_objs[k]
        /\ \A j \in 1..Len(sorted_objs) :
              visits[sorted_objs[j]] = IF j <= Visited THEN 1 ELSE 0
        /\ last_eval.called => last_eval.obj = sorted_objs[Visited]

\* C10: objectives are visited in ascending order of the key, equal keys in
\* input order, and the order is fixed before the first assignment: no later
\* step changes sorted_objs.
C10_VisitOrder ==
    /\ []C10_OrderState
    /\ [][pc # "start" => sorted_objs' = sorted_objs]_vars

\* the second objective of the input was visited first, and a vehicle moved
\* for it, before the first one was visited
C10_Witness ==
    /\ sorted_objs = <<2, 1>>
    /\ last_eval.called
    /\ last_eval.obj = 1
    /\ \E i \in 1..Len(vehicles) : vehicles[i].current_node # start_node

----------------------------------------------------------------------------
(* C7: get_cost equals the reference cost function *)

RefBlocked(w, t, v) ==
    IF v = "truck"
    THEN w * sensors.earth_shock[t + 1] > 10 /\ w * sensors.rainfall[t + 1] > 30
    ELSE w * sensors.wind[t + 1] > 60 /\ w * sensors.visibility[t + 1] < 6

RefCost(r, t, v) ==
    CASE r = NoRoad -> Impassable
      [] r = Airspace -> IF v = "truck" THEN Impassable ELSE 0
      [] OTHER -> LET w == road_weights[r][t + 1]
                  IN  IF RefBlocked(w, t, v) THEN w * r * 5 ELSE w * r

\* C7: every value get_cost returns is the reference cost of its arguments:
\* impassable for no road and for a truck on airspace, 0 for a drone on
\* airspace, and for a ground road w*r, or w*r*5 exactly when both
\* thresholds of the vehicle class hold strictly.
C7_GetCostIsReference ==
    ret.called => ret.value = RefCost(ret.road_type, ret.time, ret.vehicle_type)

\* a blocked ground road was priced (x5), for a truck
C7_Witness ==
    /\ ret.called
    /\ ret.road_type >= 1
    /\ ret.vehicle_type = "truck"
    /\ ret.value > 0
    /\ ret.value = 5 * ret.road_type * road_weights[ret.road_type][ret.time + 1]

----------------------------------------------------------------------------
(* C8: the scoring rule *)

\* C8: _calculate_score returns the objective's points on arrival at release,
\* max(0, points - late_penalty*k) on arrival k > 0 steps after release and
\* not after the deadline, 0 outside [release, deadline], and never a
\* negative value.
C8_ScoreRule ==
    score_call.called =>
        LET a == score_call.arrival
            o == score_call.obj
            s == score_call.value
        IN  /\ (a = o.release => s = o.points)
            /\ (a > o.release /\ a <= o.deadline =>
                    s = Max(0, o.points - late_penalty * (a - o.release)))
            /\ (a < o.release \/ a > o.deadline => s = 0)
            /\ s >= 0

\* a late arrival inside the window whose penalty exceeds the points
C8_Witness ==
    /\ score_call.called
    /\ score_call.arrival > score_call.obj.release
    /\ score_call.arrival <= score_call.obj.deadline
    /\ score_call.obj.points - late_penalty * (score_call.arrival - score_call.obj.release) < 0
    /\ score_call.value = 0

----------------------------------------------------------------------------
(* C11: an objective no vehicle can reach *)

\* vehicle i, as it was when last_eval's objective was evaluated, has no
\* wait/move sequence that reaches the objective's node by its deadline
Unreachable(i) ==
    LET obj == objectives[last_eval.obj]
        v == last_eval.before[i]
    IN  BestCost(v.current_node, v.current_time, obj.node, v.type,
                 obj.deadline, obj.deadline) = Inf

\* C11: a vehicle for which no wait/move sequence reaches the objective's
\* node by its deadline is not a candidate, and _find_path, when called for
\* it, returns (None, +infinity, T); when this holds for every vehicle there is
\* no winner, the objective is booked on no vehicle, total_points and
\* total_cost of every vehicle stay as they were and the loop of solve has
\* moved past the objective.
C11_NoPathNoCandidate ==
    last_eval.called =>
        LET c == last_eval.cands
        IN  /\ \A i \in 1..Len(c) :
                  Unreachable(i) =>
                      /\ ~c[i].cand
                      /\ c[i].called => c[i].returned = NoPath
            /\ (\A i \in 1..Len(c) : Unreachable(i)) =>
                  /\ last_eval.winner = 0
                  /\ pc \in {"loop", "done"}
                  /\ sorted_objs[obj_pos] = last_eval.obj
                  /\ Bookings(last_eval.obj) = {}
                  /\ \A i \in 1..Len(vehicles) :
                        /\ vehicles[i].total_points = last_eval.before[i].total_points
                        /\ vehicles[i].total_cost = last_eval.before[i].total_cost

\* _find_path was called for every vehicle and found no path for any, for the
\* first objective visited out of two, after which the second was still to do
C11_Witness ==
    /\ last_eval.called
    /\ \A i \in 1..Len(vehicles) :
          last_eval.cands[i].called /\ last_eval.cands[i].returned = NoPath
    /\ last_eval.winner = 0
    /\ Len(objectives) = 2
    /\ obj_pos = 1
    /\ pc = "loop"

----------------------------------------------------------------------------
(* C12: the cache of get_cost *)

\* C12: in every sequence of get_cost calls on one CostCalculator, each call,
\* answered from the cache or not, returns the value that the evaluation
\* without the cache gives for its (road_type, time, vehicle class).
C12_CacheIsTransparent ==
    ret.called =>
        ret.value = ComputeCost(ret.road_type, ret.time, ret.vehicle_type)

\* a call for a drone on airspace was answered from a cache that also holds
\* another entry
C12_Witness ==
    /\ ret.called
    /\ ret.hit
    /\ ret.road_type = Airspace
    /\ ret.vehicle_type = "drone"
    /\ ret.value = 0
    /\ Cardinality(DOMAIN cache) = MaxCache

----------------------------------------------------------------------------
(* C13: the order in which _find_path pops the frontier *)

\* C13: the entries of the frontier are popped in non-decreasing order of
\* accumulated cost, and of two entries with equal accumulated cost the one
\* pushed earlier is popped first: no entry is popped while an entry of the
\* same cost with a smaller push number is popped later or still in the heap.
C13_PopOrderFIFO ==
    fp_call.called =>
        LET pops == fp_call.result.pops
            left == fp_call.result.left
        IN  /\ \A a, b \in 1..Len(pops) :
                  a < b =>
                      /\ pops[a].entry.g <= pops[b].entry.g
                      /\ pops[a].entry.g = pops[b].entry.g => pops[a].seq < pops[b].seq
            /\ \A a \in 1..Len(pops), k \in 1..Len(left) :
                  pops[a].entry.g = left[k].entry.g => pops[a].seq < left[k].seq

----------------------------------------------------------------------------
(* C14: node arguments outside [0, N) *)

\* C14: a call of get_neighbors, is_valid_edge or get_road_type with a node
\* argument outside [0, N), negative ones included, ends with an out-of-range
\* error and returns no value.
C14_OutOfRangeRaises ==
    graph_call.called =>
        ((\E n \in graph_call.nodes : n \notin Nodes) => graph_call.outcome.raised)

----------------------------------------------------------------------------
(* C15: structurally invalid input *)

\* C15: with a structurally invalid input (a non-square matrix, a matrix
\* entry outside -1..5, a missing weight or sensor series, an objective on a
\* node outside [0, N)) the construction fails, so no objective is ever
\* evaluated and no solve completes and returns a solution.
C15_InvalidInputRejected ==
    ~ValidInput =>
        /\ ~last_eval.called
        /\ pc # "done"

----------------------------------------------------------------------------
(* C16: the time index of get_cost *)

\* C16: every get_cost call made during a solve, by _find_path or by the
\* commit loop of _assign_objective, has a time index t with 0 <= t <= T - 1,
\* also when deadlines are at or beyond T.
C16_QueriesWithinHorizon ==
    \A q \in queried : 0 <= q[2] /\ q[2] <= T - 1

\* a solve ended that priced a ground road at the last timestep T - 1 for an
\* objective whose deadline is beyond T, and that committed a move
C16_Witness ==
    /\ pc = "done"
    /\ T >= 2
    /\ \E q \in queried : q[1] >= 1 /\ q[2] = T - 1
    /\ \E o \in 1..Len(objectives) : objectives[o].deadline > T
    /\ \E i \in 1..Len(vehicles) : vehicles[i].total_cost > 0

----------------------------------------------------------------------------
(* C17: _find_path and the horizon *)

\* C17: a call of _find_path that starts at a time < T only pushes entries
\* with a time < T, so every entry it pops has a time <= T - 1 and a path it
\* returns arrives at a time <= T - 1, whatever the deadline.
C17_ArrivalBeforeHorizon ==
    (fp_call.called /\ fp_call.start_time < T) =>
        /\ \A a \in 1..Len(fp_call.result.pops) :
              fp_call.result.pops[a].entry.time <= T - 1
        /\ fp_call.result.found => fp_call.result.arrival <= T - 1

====
